---- MODULE Spec2Model ----
(***************************************************************************)
(* Model of the pattern-matrix cache (src/src/pattern.py) and of the guess *)
(* selection and brute-force verification (src/src/solver.py) of the       *)
(* Wordle solver.                                                          *)
(*                                                                         *)
(* Words are tuples of letters.  Python lists are sequences; Python        *)
(* 0-based indices are kept 0-based where they are stored (words_to_index, *)
(* the grid, the bucket index).                                            *)
(***************************************************************************)
EXTENDS Integers, Sequences, FiniteSets, TLC

VARIABLES
    PATTERN_GRID_DATA,  \* pattern.py:14, the process-wide cache
    disk,               \* per game: the persisted grid file (np.save / np.load)
    builds,             \* per game: how often generate_full_pattern_matrix ran
    gameSet,            \* the game names this process passes as game_name
    input,              \* the words and word lists this process works on
    op,                 \* the most recent top-level call and its arguments
    ret,                \* how that call ended: returned value or raised error
    refiltered,         \* the call filtered the result of the same filter again
    pc,                 \* position inside a running multi-step call
    depth,              \* number of optimal_guess frames on the stack
    frame,              \* locals of the two-ply loop of get_expected_scores
    bf                  \* locals of brute_force_optimal_guess

vars == <<PATTERN_GRID_DATA, disk, builds, gameSet, input, op, ret,
          refiltered, pc, depth, frame, bf>>

----------------------------------------------------------------------------
(* Bounds                                                                  *)

\* longest list of possible words, or word list, passed to a call
MaxLen == 2

\* longest list of allowed words (all_words) passed to the brute-force verifier
MaxAllWords == 3

\* longest list passed to the verifier where its termination is checked
MaxFairLen == 1

----------------------------------------------------------------------------
(* Words, games and the word-list collaborator                             *)

speed == <<"s", "p", "e", "e", "d">>
erase == <<"e", "r", "a", "s", "e">>
abide == <<"a", "b", "i", "d", "e">>
abode == <<"a", "b", "o", "d", "e">>
light == <<"l", "i", "g", "h", "t">>

Games == {"G1", "G2"}

\* src.prior.get_word_list: the ordered, duplicate-free word list of a game
get_word_list(game_name) ==
    IF game_name = "G1" THEN <<speed, erase, abide, abode>>
                        ELSE <<light, abode, speed>>

Range(s) == {s[i] : i \in 1..Len(s)}

Universe == UNION {Range(get_word_list(g)) : g \in Games}

Letters == UNION {Range(w) : w \in Universe}

\* argument lists: duplicate-free sequences of words, at most n long
NoDup(s) == \A i, j \in 1..Len(s) : s[i] = s[j] => i = j
WordSeqs(n) == UNION {{s \in [1..k -> Universe] : NoDup(s)} : k \in 0..n}

----------------------------------------------------------------------------
(* Pattern Encoder (src.pattern_utils.generate_pattern_matrix on one pair) *)

MISS == 0
MISPLACED == 1
EXACT == 2

RECURSIVE Pow3(_)
Pow3(k) == IF k = 0 THEN 1 ELSE 3 * Pow3(k - 1)

\* letters of the answer left after the EXACT positions were removed
RemainingAfterExact(guess, answer) ==
    [c \in Letters |->
        Cardinality({i \in 1..Len(answer) : answer[i] = c /\ guess[i] # c})]

\* second pass, in position order, over the positions that are not EXACT
RECURSIVE SecondPass(_, _, _, _, _)
SecondPass(guess, answer, i, remaining, digits) ==
    IF i > Len(guess) THEN digits
    ELSE IF guess[i] = answer[i]
         THEN SecondPass(guess, answer, i + 1, remaining, Append(digits, EXACT))
         ELSE IF remaining[guess[i]] > 0
              THEN SecondPass(guess, answer, i + 1,
                              [remaining EXCEPT ![guess[i]] = @ - 1],
                              Append(digits, MISPLACED))
              ELSE SecondPass(guess, answer, i + 1, remaining,
                              Append(digits, MISS))

RECURSIVE EncodeDigits(_, _)
EncodeDigits(digits, i) ==
    IF i > Len(digits) THEN 0
    ELSE digits[i] * Pow3(i - 1) + EncodeDigits(digits, i + 1)

Encoder(guess, answer) ==
    EncodeDigits(SecondPass(guess, answer, 1,
                            RemainingAfterExact(guess, answer), <<>>), 1)

\* src.block.generate_full_pattern_matrix_in_blocks: entry (g, a), 0-based
generate_full_pattern_matrix_in_blocks(words) ==
    [p \in (0..(Len(words) - 1)) \X (0..(Len(words) - 1)) |->
        Encoder(words[p[1] + 1], words[p[2] + 1])]

\* patterns offered as arguments with a guess and a list: the ones the guess
\* produces against a word of the list, and the two ends of the range
PatternInputs(guess, word_list) ==
    {Encoder(guess, a) : a \in Range(word_list)} \cup {0, 242}

----------------------------------------------------------------------------
(* The cache: pattern.py                                                   *)

NoFile == [exists |-> FALSE, grid |-> <<>>]
EmptyCache == [populated |-> FALSE, grid |-> <<>>, words_to_index |-> <<>>]

\* dict(zip(get_word_list(game_name), itertools.count()))
WordsToIndex(words) ==
    [w \in Range(words) |-> (CHOOSE i \in 1..Len(words) : words[i] = w) - 1]

\* The functions below take the store st = [cache, disk, builds] and return
\* an outcome [st, kind, val]: the store they leave, "ok" or the exception
\* raised, and the value returned.

Raise(st, kind) == [st |-> st, kind |-> kind, val |-> <<>>]

generate_full_pattern_matrix(game_name, st) ==
    [st EXCEPT
        !.disk[game_name] =
            [exists |-> TRUE,
             grid |-> generate_full_pattern_matrix_in_blocks(get_word_list(game_name))],
        !.builds[game_name] = @ + 1]

\* lines 36-39: np.load and the word index
Load(game_name, st0) ==
    [st0 EXCEPT !.cache =
        [populated |-> TRUE,
         grid |-> st0.disk[game_name].grid,
         words_to_index |-> WordsToIndex(get_word_list(game_name))]]

\* variant: regenerates the grid although the file exists
LoadIfEmpty_rebuild(game_name, st) ==
    IF ~st.cache.populated
    THEN Load(game_name, generate_full_pattern_matrix(game_name, st))
    ELSE st

\* lines 30-39: populate the cache when (and only when) it is empty
LoadIfEmpty(game_name, st) ==
    IF ~st.cache.populated
    THEN Load(game_name,
              IF ~st.disk[game_name].exists
              THEN generate_full_pattern_matrix(game_name, st)
              ELSE st)
    ELSE st

\* lines 41-46: the sub-matrix, as a sequence of rows
IndexSlice(words1, words2, st1) ==
    IF \A w \in Range(words1) \cup Range(words2) :
           w \in DOMAIN st1.cache.words_to_index
    THEN [st |-> st1, kind |-> "ok",
          val |-> [i \in 1..Len(words1) |->
                    [j \in 1..Len(words2) |->
                        st1.cache.grid[<<st1.cache.words_to_index[words1[i]],
                                         st1.cache.words_to_index[words2[j]]>>]]]]
    ELSE Raise(st1, "KeyError")

get_pattern_matrix(words1, words2, game_name, st) ==
    IndexSlice(words1, words2, LoadIfEmpty(game_name, st))

\* m[0, 0]
Entry00(m) ==
    IF m.kind = "ok"
    THEN [st |-> m.st, kind |-> "ok", val |-> m.val[1][1]]
    ELSE m

\* variant: always goes through the cache, loading it when it is empty
get_pattern_always_cached(guess, answer, game_name, st) ==
    Entry00(get_pattern_matrix(<<guess>>, <<answer>>, game_name, st))

get_pattern(guess, answer, game_name, st) ==
    IF st.cache.populated
       /\ guess \in DOMAIN st.cache.words_to_index
       /\ answer \in DOMAIN st.cache.words_to_index
    THEN Entry00(get_pattern_matrix(<<guess>>, <<answer>>, game_name, st))
    ELSE [st |-> st, kind |-> "ok", val |-> Encoder(guess, answer)]

\* variant: the mask is applied one position off
RECURSIVE MaskSelect_shifted(_, _, _, _)
MaskSelect_shifted(word_list, all_patterns, pattern, i) ==
    IF i > Len(word_list) THEN <<>>
    ELSE IF i < Len(word_list) /\ all_patterns[i + 1] = pattern
         THEN <<word_list[i]>> \o
              MaskSelect_shifted(word_list, all_patterns, pattern, i + 1)
         ELSE MaskSelect_shifted(word_list, all_patterns, pattern, i + 1)

\* np.array(word_list)[all_patterns == pattern], element by element
RECURSIVE MaskSelect(_, _, _, _)
MaskSelect(word_list, all_patterns, pattern, i) ==
    IF i > Len(word_list) THEN <<>>
    ELSE IF all_patterns[i] = pattern
         THEN <<word_list[i]>> \o MaskSelect(word_list, all_patterns, pattern, i + 1)
         ELSE MaskSelect(word_list, all_patterns, pattern, i + 1)

\* line 80 on the looked-up row m
Filtered(pattern, word_list, m) ==
    IF m.kind = "ok"
    THEN [st |-> m.st, kind |-> "ok",
          val |-> MaskSelect(word_list, m.val[1], pattern, 1)]
    ELSE m

get_possible_words(guess, pattern, word_list, game_name, st) ==
    Filtered(pattern, word_list,
             get_pattern_matrix(<<guess>>, word_list, game_name, st))

\* 3**5 at pattern.py:94
NumBuckets == 243

\* variant: inserts at the front of the bucket
RECURSIVE FillBuckets_prepend(_, _, _, _)
FillBuckets_prepend(buckets, hashes, possible_words, i) ==
    IF i > Len(possible_words) THEN buckets
    ELSE FillBuckets_prepend(
             [buckets EXCEPT ![hashes[i]] = <<possible_words[i]>> \o @],
             hashes, possible_words, i + 1)

\* the loop of lines 96-97, from position i on
RECURSIVE FillBuckets(_, _, _, _)
FillBuckets(buckets, hashes, possible_words, i) ==
    IF i > Len(possible_words) THEN buckets
    ELSE FillBuckets([buckets EXCEPT ![hashes[i]] = Append(@, possible_words[i])],
                     hashes, possible_words, i + 1)

\* lines 94, 96-98 on the looked-up row m
Bucketed(possible_words, m) ==
    IF m.kind = "ok"
    THEN [st |-> m.st, kind |-> "ok",
          val |-> FillBuckets([b \in 0..(NumBuckets - 1) |-> <<>>],
                              m.val[1], possible_words, 1)]
    ELSE m

get_word_buckets(guess, possible_words, game_name, st) ==
    Bucketed(possible_words,
             get_pattern_matrix(<<guess>>, possible_words, game_name, st))

----------------------------------------------------------------------------
(* Guess selection: solver.py                                              *)
(*                                                                         *)
(* Entropies and expected scores are floating-point numbers computed from  *)
(* log2; the model keeps of such an array only its length, and argmax,     *)
(* argmin and argsort over it may give any index or order.  The lower      *)
(* bounds of get_score_lower_bounds are rationals with denominator         *)
(* n = len(possible_words) and are kept exactly, multiplied by n.  (For    *)
(* n <= 4 the IEEE double evaluation of lines 136-141 orders the values a  *)
(* duplicate-free possible_words can produce as the exact values are       *)
(* ordered, ties included.)                                                *)

\* per allowed word, the number of distinct patterns in its row of m
DistinctPerRow(allowed_words, possible_words, m) ==
    IF m.kind = "ok"
    THEN [st |-> m.st, kind |-> "ok",
          val |-> [i \in 1..Len(allowed_words) |->
                    Cardinality({m.val[i][j] : j \in 1..Len(possible_words)})]]
    ELSE m

\* src.entropy.get_bucket_counts: per allowed word, the number of buckets it
\* separates possible_words into
get_bucket_counts(allowed_words, possible_words, game_name, st) ==
    DistinctPerRow(allowed_words, possible_words,
                   get_pattern_matrix(allowed_words, possible_words, game_name, st))

\* an array of len floats
Floats(len, m) ==
    IF m.kind = "ok"
    THEN [st |-> m.st, kind |-> "ok", val |-> [len |-> len, zeros |-> FALSE]]
    ELSE m

\* src.entropy.get_entropies: one entropy per allowed word; all zero, without
\* a lookup, when the weights sum to zero (no possible word)
get_entropies(allowed_words, possible_words, game_name, st) ==
    IF Len(possible_words) = 0
    THEN [st |-> st, kind |-> "ok",
          val |-> [len |-> Len(allowed_words), zeros |-> TRUE]]
    ELSE Floats(Len(allowed_words),
                get_pattern_matrix(allowed_words, possible_words, game_name, st))

\* lines 51-66 of get_expected_scores: the one-ply scores
OnePlyScores(allowed_words, possible_words, game_name, st) ==
    IF Len(possible_words) = 0
    THEN Raise(st, "ValueError: No possible words available for guessing.")
    ELSE get_entropies(allowed_words, possible_words, game_name, st)

\* variant: p2s without "- p1s"
LowerBounds_p2_keeps_p1(allowed_words, possible_words, bc) ==
    IF bc.kind = "ok"
    THEN [st |-> bc.st, kind |-> "ok",
          val |-> [i \in 1..Len(allowed_words) |->
                    (IF allowed_words[i] \in Range(possible_words) THEN 1 ELSE 0)
                    + 2 * bc.val[i]
                    + 3 * (Len(possible_words) - bc.val[i])]]
    ELSE bc

\* lines 134-141 on the bucket counts bc; val[i] is n times the bound of
\* allowed_words[i]: n*p1s + 2*n*p2s + 3*n*p3s
LowerBounds(allowed_words, possible_words, bc) ==
    IF bc.kind = "ok"
    THEN [st |-> bc.st, kind |-> "ok",
          val |-> [i \in 1..Len(allowed_words) |->
                    (IF allowed_words[i] \in Range(possible_words) THEN 1 ELSE 0)
                    + 2 * (bc.val[i] -
                           (IF allowed_words[i] \in Range(possible_words)
                            THEN 1 ELSE 0))
                    + 3 * (Len(possible_words) - bc.val[i])]]
    ELSE bc

get_score_lower_bounds(allowed_words, possible_words, game_name, st) ==
    IF Len(possible_words) = 0
    THEN Raise(st, "ValueError: No possible words available for guessing.")
    ELSE LowerBounds(allowed_words, possible_words,
                     get_bucket_counts(allowed_words, possible_words,
                                       game_name, st))

\* np.argmin of a nonempty array: the first minimal index, 0-based
ArgMin(a) ==
    (CHOOSE i \in 1..Len(a) :
        /\ \A j \in 1..Len(a) : a[i] <= a[j]
        /\ \A j \in 1..(i - 1) : a[j] > a[i]) - 1

\* allowed_words[np.argmax(e)] or allowed_words[np.argmin(e)] of an array e of
\* floats: the ways it can end
PickByFloats(allowed_words, e, when_empty) ==
    IF e.kind # "ok" THEN {e}
    ELSE IF e.val.len = 0 THEN {Raise(e.st, when_empty)}
    ELSE IF e.val.zeros
    THEN {[st |-> e.st, kind |-> "ok", val |-> allowed_words[1]]}
    ELSE {[st |-> e.st, kind |-> "ok", val |-> allowed_words[i]] :
             i \in 1..Len(allowed_words)}

\* lines 178-181 on the lower bounds lb
PickMin(allowed_words, lb) ==
    IF lb.kind # "ok" THEN {lb}
    ELSE IF Len(lb.val) = 0
    THEN {Raise(lb.st, "ValueError: No expected scores calculated for argmin.")}
    ELSE {[st |-> lb.st, kind |-> "ok",
           val |-> allowed_words[ArgMin(lb.val) + 1]]}

\* variant: the singleton shortcut is taken under every policy
optimal_guess_shortcut(allowed_words, possible_words, game_name, optimize_for_uniform_distribution, purely_maximize_information, st) ==
    IF Len(possible_words) = 1
    THEN {[st |-> st, kind |-> "ok", val |-> possible_words[1]]}
    ELSE IF Len(allowed_words) = 0
    THEN {Raise(st, "ValueError: No allowed words available.")}
    ELSE PickByFloats(allowed_words,
                      OnePlyScores(allowed_words, possible_words, game_name, st),
                      "ValueError: No expected scores calculated for argmin.")

\* optimal_guess with look_two_ahead=False: the set of ways the call can end
optimal_guess(allowed_words, possible_words, game_name, optimize_for_uniform_distribution, purely_maximize_information, st) ==
    IF purely_maximize_information
    THEN IF Len(possible_words) = 1
         THEN {[st |-> st, kind |-> "ok", val |-> possible_words[1]]}
         ELSE PickByFloats(allowed_words,
                           get_entropies(allowed_words, possible_words,
                                         game_name, st),
                           "ValueError: attempt to get argmax of an empty sequence")
    ELSE IF Len(allowed_words) = 0
    THEN {Raise(st, "ValueError: No allowed words available.")}
    ELSE IF optimize_for_uniform_distribution
    THEN PickMin(allowed_words,
                 get_score_lower_bounds(allowed_words, possible_words,
                                        game_name, st))
    ELSE PickByFloats(allowed_words,
                      OnePlyScores(allowed_words, possible_words, game_name, st),
                      "ValueError: No expected scores calculated for argmin.")

----------------------------------------------------------------------------
(* State shared by the specifications                                      *)

Store == [cache |-> PATTERN_GRID_DATA, disk |-> disk, builds |-> builds]

\* the persisted file of a game as a build writes it
BuiltFile(g) ==
    [exists |-> TRUE,
     grid |-> generate_full_pattern_matrix_in_blocks(get_word_list(g))]

NoOp == [name |-> "none", game |-> "G1"]
NoRet == [kind |-> "none", val |-> <<>>]
Running == [kind |-> "running", val |-> <<>>]
NoFrame == [shortlist |-> <<>>, i |-> 0, b |-> 0, buckets |-> <<>>, n_scores |-> 0]
NoBf == [top_choices |-> <<>>, ci |-> 0, ai |-> 0, guess |-> <<>>,
         possibilities |-> <<>>, score |-> 0, scores |-> <<>>,
         true_sums |-> <<>>]

\* a fresh process: empty cache; each game's grid file exists or not
InitStore ==
    /\ PATTERN_GRID_DATA = EmptyCache
    /\ disk \in [Games -> {NoFile} \cup {BuiltFile(g) : g \in Games}]
    /\ \A g \in Games : disk[g] \in {NoFile, BuiltFile(g)}
    /\ builds = [g \in Games |-> 0]

\* a fresh process that serves one game: only that game's grid file matters
InitOneGameStore ==
    /\ \E g \in Games :
        /\ gameSet = {g}
        /\ disk \in {[h \in Games |-> NoFile],
                     [h \in Games |-> IF h = g THEN BuiltFile(g) ELSE NoFile]}
    /\ PATTERN_GRID_DATA = EmptyCache
    /\ builds = [g \in Games |-> 0]

InitIdle ==
    /\ op = NoOp
    /\ ret = NoRet
    /\ refiltered = FALSE
    /\ pc = "idle"
    /\ depth = 0
    /\ frame = NoFrame
    /\ bf = NoBf

SetStore(st) ==
    /\ PATTERN_GRID_DATA' = st.cache
    /\ disk' = st.disk
    /\ builds' = st.builds

\* the call ends, with a value or with an exception, leaving the store r.st
EndCall(call, r) ==
    /\ SetStore(r.st)
    /\ op' = call
    /\ ret' = [kind |-> r.kind, val |-> r.val]
    /\ pc' = "idle"
    /\ depth' = 0
    /\ frame' = NoFrame

----------------------------------------------------------------------------
(* Specification of the cache: any sequence of calls into pattern.py on   *)
(* the process's guess and word list                                       *)

\* lists the process passes as words1: its guess alone, or its word list
ArgLists == {input.word_list, <<input.guess>>}

Call_get_pattern_matrix ==
    /\ pc = "idle"
    /\ \E words1 \in ArgLists, g \in gameSet :
        EndCall([name |-> "get_pattern_matrix", game |-> g,
                 words1 |-> words1, words2 |-> input.word_list],
                get_pattern_matrix(words1, input.word_list, g, Store))
    /\ refiltered' = FALSE
    /\ UNCHANGED <<gameSet, input, bf>>

Call_get_pattern ==
    /\ pc = "idle"
    /\ \E answer \in Universe, g \in gameSet :
        EndCall([name |-> "get_pattern", game |-> g,
                 guess |-> input.guess, answer |-> answer],
                get_pattern(input.guess, answer, g, Store))
    /\ refiltered' = FALSE
    /\ UNCHANGED <<gameSet, input, bf>>

\* the list to filter: the process's word list, or what the last filter left
FilterLists ==
    {input.word_list} \cup
    (IF op.name = "get_possible_words" /\ ret.kind = "ok" THEN {ret.val} ELSE {})

Call_get_possible_words ==
    /\ pc = "idle"
    /\ \E pattern \in PatternInputs(input.guess, input.word_list),
          word_list \in FilterLists, g \in gameSet :
        /\ EndCall([name |-> "get_possible_words", game |-> g,
                    guess |-> input.guess, pattern |-> pattern,
                    word_list |-> word_list],
                   get_possible_words(input.guess, pattern, word_list, g, Store))
        /\ refiltered' = (/\ op.name = "get_possible_words"
                          /\ ret.kind = "ok"
                          /\ op.game = g
                          /\ op.pattern = pattern
                          /\ ret.val = word_list)
    /\ UNCHANGED <<gameSet, input, bf>>

Call_get_word_buckets ==
    /\ pc = "idle"
    /\ \E g \in gameSet :
        EndCall([name |-> "get_word_buckets", game |-> g,
                 guess |-> input.guess, possible_words |-> input.word_list],
                get_word_buckets(input.guess, input.word_list, g, Store))
    /\ refiltered' = FALSE
    /\ UNCHANGED <<gameSet, input, bf>>

NextCache ==
    \/ Call_get_pattern_matrix
    \/ Call_get_pattern
    \/ Call_get_possible_words
    \/ Call_get_word_buckets

InitCacheInput ==
    \E guess \in Universe, word_list \in WordSeqs(MaxLen) :
        input = [guess |-> guess, word_list |-> word_list]

\* a process that serves several games
InitCache == InitStore /\ InitIdle /\ InitCacheInput /\ gameSet = Games
SpecCache == InitCache /\ [][NextCache]_vars

\* a process that serves one game
InitOneGame == InitOneGameStore /\ InitIdle /\ InitCacheInput
SpecOneGame == InitOneGame /\ [][NextCache]_vars

----------------------------------------------------------------------------
(* Specification of the selector: calls of optimal_guess and               *)
(* get_expected_scores on the process's allowed and possible words         *)

\* n_top_candidates_for_two_step
NTopCandidates == 25

\* the orders of the indices 1..k
Orders(k) == {o \in [1..k -> 1..k] : \A i, j \in 1..k : o[i] = o[j] => i = j}

\* s[:k]
Prefix(s, k) == [i \in 1..(IF Len(s) < k THEN Len(s) ELSE k) |-> s[i]]

\* lines 78-81: the loop over the shortlist is at its guess number i, before
\* the first bucket
EnterBuckets(call, selector_frames, shortlist, i, n_scores, bk) ==
    /\ SetStore(bk.st)
    /\ op' = call
    /\ ret' = Running
    /\ pc' = "two_ply"
    /\ depth' = selector_frames
    /\ frame' = [shortlist |-> shortlist, i |-> i, b |-> 0,
                 buckets |-> bk.val, n_scores |-> n_scores]

\* lines 65-81 with look_two_ahead=True, on the one-ply scores: the end of
\* the call, or the entry into the loop over the shortlist; np.argsort of
\* the floats gives some order
AfterOnePly(call, selector_frames, one) ==
    IF one.kind # "ok"
    THEN EndCall(call, one)
    ELSE IF one.val.len = 0
    THEN EndCall(call, [st |-> one.st, kind |-> "ok", val |-> 0])
    ELSE \E sorted_indices \in Orders(one.val.len) :
            EnterBuckets(call, selector_frames,
                         Prefix(sorted_indices, NTopCandidates), 1, one.val.len,
                         get_word_buckets(call.allowed_words[sorted_indices[1]],
                                          call.possible_words, call.game, one.st))

\* how a call of get_expected_scores without lookahead ends: the number of
\* scores stands for the array
ScoresReturned(one) ==
    IF one.kind = "ok"
    THEN [st |-> one.st, kind |-> "ok", val |-> one.val.len]
    ELSE one

Call_optimal_guess ==
    /\ pc = "idle"
    /\ \E look_two_ahead \in BOOLEAN, optimize_for_uniform_distribution \in BOOLEAN,
          purely_maximize_information \in BOOLEAN, g \in gameSet :
        \E call \in {[name |-> "optimal_guess", game |-> g,
                      allowed_words |-> input.allowed_words,
                      possible_words |-> input.possible_words,
                      look_two_ahead |-> look_two_ahead,
                      optimize_for_uniform_distribution |->
                          optimize_for_uniform_distribution,
                      purely_maximize_information |->
                          purely_maximize_information]} :
            IF /\ look_two_ahead
               /\ ~purely_maximize_information
               /\ ~optimize_for_uniform_distribution
               /\ Len(input.allowed_words) # 0
            THEN AfterOnePly(call, 1,
                             OnePlyScores(input.allowed_words,
                                          input.possible_words, g, Store))
            ELSE \E r \in optimal_guess(input.allowed_words, input.possible_words,
                                        g, optimize_for_uniform_distribution,
                                        purely_maximize_information, Store) :
                     EndCall(call, r)
    /\ UNCHANGED <<gameSet, input, refiltered, bf>>

Call_get_expected_scores ==
    /\ pc = "idle"
    /\ \E look_two_ahead \in BOOLEAN, g \in gameSet :
        \E call \in {[name |-> "get_expected_scores", game |-> g,
                      allowed_words |-> input.allowed_words,
                      possible_words |-> input.possible_words,
                      look_two_ahead |-> look_two_ahead,
                      optimize_for_uniform_distribution |-> FALSE,
                      purely_maximize_information |-> FALSE]} :
            IF look_two_ahead
            THEN AfterOnePly(call, 0,
                             OnePlyScores(input.allowed_words,
                                          input.possible_words, g, Store))
            ELSE EndCall(call,
                         ScoresReturned(OnePlyScores(input.allowed_words,
                                                     input.possible_words,
                                                     g, Store)))
    /\ UNCHANGED <<gameSet, input, refiltered, bf>>

\* lines 82-91: optimal_guess is entered for the bucket at frame.b
TwoPly_CallSelector ==
    /\ pc = "two_ply"
    /\ pc' = "inner"
    /\ depth' = depth + 1
    /\ UNCHANGED <<PATTERN_GRID_DATA, disk, builds, gameSet, input, op, ret,
                   refiltered, frame, bf>>

\* the selector entered for the bucket at frame.b ends.  Its exception ends
\* the whole call.  Its word is kept, and the comprehension goes on with the
\* next bucket; after the last bucket the loop goes on with the next
\* shortlisted guess (lines 92-121, 78-81) or the call returns.
TwoPly_SelectorEnds ==
    /\ pc = "inner"
    /\ \E r \in optimal_guess(get_word_list(op.game), frame.buckets[frame.b],
                              op.game, FALSE, FALSE, Store) :
        IF r.kind # "ok"
        THEN EndCall(op, r)
        ELSE IF frame.b + 1 < NumBuckets
        THEN /\ SetStore(r.st)
             /\ frame' = [frame EXCEPT !.b = @ + 1]
             /\ pc' = "two_ply"
             /\ depth' = depth - 1
             /\ UNCHANGED <<op, ret>>
        ELSE IF frame.i < Len(frame.shortlist)
        THEN EnterBuckets(op, depth - 1, frame.shortlist, frame.i + 1,
                          frame.n_scores,
                          get_word_buckets(
                              op.allowed_words[frame.shortlist[frame.i + 1]],
                              op.possible_words, op.game, r.st))
        ELSE IF op.name = "optimal_guess"
        THEN \E k \in 1..Len(op.allowed_words) :
                 EndCall(op, [st |-> r.st, kind |-> "ok",
                              val |-> op.allowed_words[k]])
        ELSE EndCall(op, [st |-> r.st, kind |-> "ok", val |-> frame.n_scores])
    /\ UNCHANGED <<gameSet, input, refiltered, bf>>

NextSelector ==
    \/ Call_optimal_guess
    \/ Call_get_expected_scores
    \/ TwoPly_CallSelector
    \/ TwoPly_SelectorEnds

InitSelector ==
    /\ InitOneGameStore
    /\ InitIdle
    /\ \E allowed_words \in WordSeqs(MaxLen), possible_words \in WordSeqs(MaxLen) :
          input = [allowed_words |-> allowed_words,
                   possible_words |-> possible_words]

SpecSelector == InitSelector /\ [][NextSelector]_vars

----------------------------------------------------------------------------
(* Specification of the verifier: calls of brute_force_optimal_guess on    *)
(* the process's all_words and possible_words                              *)

\* n_top_picks
NTopPicks == 10

\* the turn counter is kept exactly up to ScoreCap and stays there; a game
\* that ends takes at most len(possible_words) + 1 turns
ScoreCap == MaxLen + 3

\* np.argsort of exact scores: ascending, equal scores in index order
ArgSort(a) ==
    CHOOSE o \in Orders(Len(a)) :
        \A i, j \in 1..Len(a) :
            i < j => \/ a[o[i]] < a[o[j]]
                     \/ a[o[i]] = a[o[j]] /\ o[i] < o[j]

\* line 200
TopChoices(all_words, expected_scores) ==
    [k \in 1..Len(Prefix(ArgSort(expected_scores), NTopPicks)) |->
        all_words[ArgSort(expected_scores)[k]]]

RECURSIVE Sum(_)
Sum(a) == IF Len(a) = 0 THEN 0 ELSE Head(a) + Sum(Tail(a))

\* the call ends, with a value or with an exception
EndBrute(call, r, locals) ==
    /\ SetStore(r.st)
    /\ op' = call
    /\ ret' = [kind |-> r.kind, val |-> r.val]
    /\ pc' = "idle"
    /\ bf' = locals

\* lines 214-216: the game against the answer number ai starts
StartGame(top_choices, ci, ai, possible_words, true_sums, scores) ==
    [top_choices |-> top_choices, ci |-> ci, ai |-> ai,
     guess |-> top_choices[ci], possibilities |-> possible_words,
     score |-> 1, scores |-> scores, true_sums |-> true_sums]

\* lines 199-216 and 237 on the lower bounds lb: an exception, the argmin of
\* an empty list, or the first game of the first shortlisted guess
AfterLowerBounds(call, lb) ==
    IF lb.kind # "ok"
    THEN EndBrute(call, lb, NoBf)
    ELSE IF Len(call.all_words) = 0
    THEN EndBrute(call,
                  Raise(lb.st, "ValueError: attempt to get argmin of an empty sequence"),
                  NoBf)
    ELSE /\ SetStore(lb.st)
         /\ op' = call
         /\ ret' = Running
         /\ pc' = "while"
         /\ bf' = StartGame(TopChoices(call.all_words, lb.val), 1, 1,
                            call.possible_words, <<>>, <<>>)

Call_brute_force_optimal_guess ==
    /\ pc = "idle"
    /\ \E g \in gameSet :
        \E call \in {[name |-> "brute_force_optimal_guess", game |-> g,
                      all_words |-> input.all_words,
                      possible_words |-> input.possible_words]} :
            IF Len(call.possible_words) = 0
            THEN IF Len(call.all_words) = 0
                 THEN EndBrute(call, Raise(Store, "IndexError"), NoBf)
                 ELSE EndBrute(call, [st |-> Store, kind |-> "ok",
                                      val |-> call.all_words[1]], NoBf)
            ELSE AfterLowerBounds(call,
                                  get_score_lower_bounds(call.all_words,
                                                         call.possible_words,
                                                         g, Store))
    /\ UNCHANGED <<gameSet, input, refiltered, depth, frame>>

\* the true answer of the running game
Answer == op.possible_words[bf.ai]

\* lines 235-237 once the scores of a shortlisted guess are complete: the
\* mean is kept as the sum (every mean is over the same number of answers)
AfterLastAnswer(scores, true_sums) ==
    IF bf.ci < Len(bf.top_choices)
    THEN /\ bf' = StartGame(bf.top_choices, bf.ci + 1, 1, op.possible_words,
                            true_sums, <<>>)
         /\ UNCHANGED <<PATTERN_GRID_DATA, disk, builds, op, ret, pc>>
    ELSE EndBrute(op, [st |-> Store, kind |-> "ok",
                       val |-> bf.top_choices[ArgMin(true_sums) + 1]],
                  [bf EXCEPT !.scores = scores, !.true_sums = true_sums])

\* line 235, and the next answer or the end of the loop over the answers
AfterGame(scores) ==
    IF bf.ai < Len(op.possible_words)
    THEN /\ bf' = StartGame(bf.top_choices, bf.ci, bf.ai + 1, op.possible_words,
                            bf.true_sums, scores)
         /\ UNCHANGED <<PATTERN_GRID_DATA, disk, builds, op, ret, pc>>
    ELSE AfterLastAnswer(scores, Append(bf.true_sums, Sum(scores)))

\* line 217: the test of the while loop
BF_LoopTest ==
    /\ pc = "while"
    /\ IF bf.guess # Answer
       THEN /\ pc' = "body"
            /\ UNCHANGED <<PATTERN_GRID_DATA, disk, builds, op, ret, bf>>
       ELSE AfterGame(Append(bf.scores, bf.score))
    /\ UNCHANGED <<gameSet, input, refiltered, depth, frame>>

\* lines 218-223 on the pattern p
Narrow(p) ==
    get_possible_words(bf.guess, p.val, bf.possibilities, op.game, p.st)

\* lines 218-234: the body of the while loop
BF_LoopBody ==
    /\ pc = "body"
    /\ \E f \in {Narrow(get_pattern(bf.guess, Answer, op.game, Store))} :
        IF f.kind # "ok"
        THEN EndBrute(op, f, bf)
        ELSE \E r \in optimal_guess(op.all_words, f.val, op.game, TRUE, FALSE, f.st) :
                IF r.kind # "ok"
                THEN EndBrute(op, r, bf)
                ELSE /\ SetStore(r.st)
                     /\ bf' = [bf EXCEPT !.possibilities = f.val,
                                         !.guess = r.val,
                                         !.score = IF @ < ScoreCap THEN @ + 1 ELSE @]
                     /\ pc' = "while"
                     /\ UNCHANGED <<op, ret>>
    /\ UNCHANGED <<gameSet, input, refiltered, depth, frame>>

NextBrute ==
    \/ Call_brute_force_optimal_guess
    \/ BF_LoopTest
    \/ BF_LoopBody

InitBrute ==
    /\ InitOneGameStore
    /\ InitIdle
    /\ \E all_words \in WordSeqs(MaxAllWords), possible_words \in WordSeqs(MaxLen) :
          input = [all_words |-> all_words, possible_words |-> possible_words]

SpecBrute == InitBrute /\ [][NextBrute]_vars

InitBruteFair ==
    /\ InitOneGameStore
    /\ InitIdle
    /\ \E all_words \in WordSeqs(MaxFairLen), possible_words \in WordSeqs(MaxFairLen) :
          input = [all_words |-> all_words, possible_words |-> possible_words]

\* the interpreter keeps running the call: a step that can be taken is taken
FairBrute == InitBruteFair /\ [][NextBrute]_vars /\ WF_vars(NextBrute)

----------------------------------------------------------------------------
(* Properties of the cache                                                 *)

CacheIsOf(g) ==
    /\ PATTERN_GRID_DATA.populated
    /\ PATTERN_GRID_DATA.words_to_index = WordsToIndex(get_word_list(g))
    /\ disk[g].exists
    /\ PATTERN_GRID_DATA.grid = disk[g].grid

\* C3: after a get_pattern_matrix call, the resident grid and words_to_index
\* are the ones of the game_name of that call, whatever game was resident
\* before.
C3_ResidentIsLatestGame ==
    op.name = "get_pattern_matrix" => CacheIsOf(op.game)

\* C5: in a process that serves one game, starting from an empty cache, every
\* step keeps the builder at one run at most; the step that populates the
\* cache runs the builder exactly if no persisted grid exists then; once the
\* cache is populated the persisted grid exists and the resident grid equals
\* it; a call on a populated cache changes neither the cache, nor the file,
\* nor the number of builds.
C5_BuildOnceThenStable ==
    [][/\ \A g \in Games : builds'[g] <= 1
       /\ PATTERN_GRID_DATA'.populated => \E g \in gameSet : CacheIsOf(g)'
       /\ (~PATTERN_GRID_DATA.populated /\ PATTERN_GRID_DATA'.populated) =>
             \A g \in gameSet :
                 /\ (builds'[g] = builds[g] + 1) <=> ~disk[g].exists
                 /\ (builds'[g] = builds[g]) <=> disk[g].exists
       /\ PATTERN_GRID_DATA.populated =>
             /\ PATTERN_GRID_DATA' = PATTERN_GRID_DATA
             /\ disk' = disk
             /\ builds' = builds]_vars

C5_Witness ==
    /\ op.name = "get_possible_words"
    /\ refiltered
    /\ \E g \in gameSet : CacheIsOf(g) /\ builds[g] = 1

\* C6: get_pattern returns the resident grid's entry when the cache is
\* populated and both words are indexed, and the direct Encoder result
\* otherwise; in the latter case it changes neither the cache, nor the
\* persisted grids, nor the number of builds.
C6_GetPatternFrame ==
    [][op'.name = "get_pattern" /\ op' # op =>
        /\ ret'.kind = "ok"
        /\ IF /\ PATTERN_GRID_DATA.populated
              /\ op'.guess \in DOMAIN PATTERN_GRID_DATA.words_to_index
              /\ op'.answer \in DOMAIN PATTERN_GRID_DATA.words_to_index
           THEN ret'.val =
                   PATTERN_GRID_DATA.grid[
                       <<PATTERN_GRID_DATA.words_to_index[op'.guess],
                         PATTERN_GRID_DATA.words_to_index[op'.answer]>>]
           ELSE /\ ret'.val = Encoder(op'.guess, op'.answer)
                /\ PATTERN_GRID_DATA' = PATTERN_GRID_DATA
                /\ disk' = disk
                /\ builds' = builds]_vars

C6_Witness ==
    /\ op.name = "get_pattern"
    /\ ~PATTERN_GRID_DATA.populated
    /\ ret.val = Encoder(op.guess, op.answer)
    /\ op.guess # op.answer

\* position of a word in a duplicate-free list
PosIn(w, s) == CHOOSE i \in 1..Len(s) : s[i] = w

\* the resident grid's pattern of guess against w
Cached(guess, w) ==
    PATTERN_GRID_DATA.grid[<<PATTERN_GRID_DATA.words_to_index[guess],
                             PATTERN_GRID_DATA.words_to_index[w]>>]

\* C8: the buckets get_word_buckets returns partition possible_words: each
\* word is in the bucket indexed by the cached pattern of guess against it
\* and in no other, once; no bucket holds another word; inside a bucket the
\* words are in the order of possible_words.
C8_BucketsPartition ==
    op.name = "get_word_buckets" /\ ret.kind = "ok" =>
        /\ DOMAIN ret.val = 0..(NumBuckets - 1)
        /\ \A w \in Range(op.possible_words) : \A b \in DOMAIN ret.val :
               (w \in Range(ret.val[b])) <=> (b = Cached(op.guess, w))
        /\ \A b \in DOMAIN ret.val :
               /\ Range(ret.val[b]) \subseteq Range(op.possible_words)
               /\ NoDup(ret.val[b])
               /\ \A x, y \in 1..Len(ret.val[b]) :
                      x < y => PosIn(ret.val[b][x], op.possible_words)
                               < PosIn(ret.val[b][y], op.possible_words)

C8_Witness ==
    /\ op.name = "get_word_buckets"
    /\ ret.kind = "ok"
    /\ \E b \in DOMAIN ret.val : Len(ret.val[b]) >= 2

\* C9: filtering the result of get_possible_words again with the same
\* guess, pattern and game returns that result unchanged.
C9_FilterIdempotent ==
    refiltered => ret.kind = "ok" /\ ret.val = op.word_list

C9_Witness ==
    /\ refiltered
    /\ ret.kind = "ok"
    /\ Len(ret.val) >= 1
    /\ Len(ret.val) < Len(input.word_list)

----------------------------------------------------------------------------
(* Properties of the selector                                              *)

Returned(name) == op.name = name /\ pc = "idle" /\ ret.kind = "ok"

\* C1 as stated: with nonempty allowed_words and possible_words, a word
\* optimal_guess returns is an element of allowed_words, under every policy.
C1_ReturnsAllowedWord ==
    /\ Returned("optimal_guess")
    /\ Len(op.allowed_words) > 0
    /\ Len(op.possible_words) > 0
    => ret.val \in Range(op.allowed_words)

\* C1 amended: with nonempty allowed_words and possible_words, a word
\* optimal_guess returns is an element of allowed_words, except under
\* purely_maximize_information with a single possible word, where it is that
\* word.
C1_ReturnsAllowedWordOrSingleton ==
    /\ Returned("optimal_guess")
    /\ Len(op.allowed_words) > 0
    /\ Len(op.possible_words) > 0
    => IF op.purely_maximize_information /\ Len(op.possible_words) = 1
       THEN ret.val = op.possible_words[1]
       ELSE ret.val \in Range(op.allowed_words)

C1_Witness ==
    /\ Returned("optimal_guess")
    /\ ~op.purely_maximize_information
    /\ Len(op.possible_words) = 1
    /\ op.possible_words[1] \notin Range(op.allowed_words)
    /\ ret.val \in Range(op.allowed_words)

\* C2: a call of optimal_guess with empty allowed_words ends in the
\* "No allowed words available." error, under every policy and for every
\* possible_words.
C2_EmptyAllowedRaises ==
    op.name = "optimal_guess" /\ pc = "idle" /\ Len(op.allowed_words) = 0
    => ret.kind = "ValueError: No allowed words available."

\* C4: with look_two_ahead and nonempty allowed_words and possible_words,
\* the one-ply selector is entered on nonempty buckets only, never more than
\* two selector frames are on the stack, the call does not end in the
\* empty-input error, and get_expected_scores returns one score per allowed
\* word.
C4_TwoPlyCompletes ==
    /\ pc = "inner" => frame.buckets[frame.b] # <<>>
    /\ depth <= 2
    /\ (/\ op.name \in {"optimal_guess", "get_expected_scores"}
        /\ pc = "idle"
        /\ op.look_two_ahead
        /\ ~op.purely_maximize_information
        /\ ~op.optimize_for_uniform_distribution
        /\ Len(op.allowed_words) > 0
        /\ Len(op.possible_words) > 0
        /\ ret.kind # "KeyError")
       => /\ ret.kind = "ok"
          /\ op.name = "get_expected_scores" => ret.val = Len(op.allowed_words)

----------------------------------------------------------------------------
(* Properties of the verifier                                              *)

\* n times the bound get_score_lower_bounds gives for the candidate c
BoundTimesN(c) ==
    get_score_lower_bounds(<<c>>, op.possible_words, op.game, Store).val[1]

C10_SimulationTerminates ==
    (pc # "idle") ~> (pc = "idle")

====
